---- MODULE Spec2Model ----
(***************************************************************************)
(* A model of the WhatsApp bot of src/index.js and src/example.js:         *)
(*   - sendMessage (the MessageDispatcher): one invocation, split at its   *)
(*     two await points, against a transport whose replies are free;       *)
(*   - startWhatsAppBot / connectWhatsApp and their connection.update      *)
(*     observer (the SessionManager): sockets, close events, the delayed   *)
(*     re-invocation of the start function, a start that fails;            *)
(*   - the messages.upsert observers (the InboundRouter), split at the     *)
(*     awaited reply sends;                                                *)
(*   - saveCreds on creds.update and the SIGINT handler.                   *)
(* Phone numbers and JIDs are sequences of characters, so that "contains   *)
(* '@'" and "append the suffix" are computed, not assumed.                 *)
(***************************************************************************)
EXTENDS Integers, Sequences, FiniteSets, TLC

VARIABLES
    smPc,          \* position of the sendMessage invocation
    smImpl,        \* which copy of sendMessage runs: "index.js" or "example.js"
    phoneNumber,   \* the destination as the caller passed it
    jid,           \* const jid of sendMessage
    calls,         \* the transport calls sendMessage has made, in order
    queryReply,    \* how sock.onWhatsApp settled
    sendReply,     \* how sock.sendMessage settled
    outcome,       \* the record sendMessage returned
    starts,        \* the invocations of the start function, in order
    socks,         \* the sockets makeWASocket has made, in order
    closeObs,      \* the runs of the connection.update observer on a close event
    callerSock,    \* const sock of the code that awaited the start function
    proc,          \* the Node process: "running" or "exited"
    rejectionMode, \* what the runtime does with an unhandled rejection
    openRejected,  \* the sockets whose 'open' run of the observer raised
    inImpl,        \* which messages.upsert observer is registered
    runs,          \* the runs of the messages.upsert observer, in emission order
    writes,        \* the saveCreds writes started, in emission order
    completed,     \* the saveCreds writes that completed, in completion order
    arrivals,      \* the messages.upsert events emitted on a socket, in order
    ex1            \* example1_sendSingleMessage past its wait for 'open'

sendVars == <<smPc, smImpl, phoneNumber, jid, calls, queryReply, sendReply, outcome>>
lifeVars == <<starts, socks, closeObs, callerSock>>
procVars == <<proc, rejectionMode, openRejected>>
inVars == <<inImpl, runs>>
credVars == <<writes, completed>>
exVars == <<arrivals, ex1>>
vars == <<smPc, smImpl, phoneNumber, jid, calls, queryReply, sendReply, outcome,
          starts, socks, closeObs, callerSock, proc, rejectionMode, openRejected,
          inImpl, runs, writes, completed, arrivals, ex1>>

----------------------------------------------------------------------------
(* Bounds *)

MaxLen == 3           \* longest destination string, in characters
MaxCloseEvents == 2   \* close events the transport emits in one run
TickMs == 1000        \* granularity of the passage of time
MaxWords == 2         \* longest message body, in words
MaxInbound == 3       \* inbound messages the transport delivers in one run
MaxCredsUpdates == 4  \* creds.update events the transport emits in one run
MaxArrivals == 1      \* messages.upsert events emitted on sockets in one run

----------------------------------------------------------------------------
(* JavaScript values: undefined, strings and numbers, kept apart by a tag *)

Undef == [t |-> "undefined", s |-> "", n |-> 0]
Str(x) == [t |-> "string", s |-> x, n |-> 0]
Num(k) == [t |-> "number", s |-> "", n |-> k]
Present(v) == v.t # "undefined"

(* Strings the code inspects are sequences of characters.  "s.whatsapp.net"
   and "g.us" stand for the character runs of a domain name. *)
Alphabet == {"7", "@", "s.whatsapp.net", "g.us"}

BoundedSeq(S, n) == UNION {[1..k -> S] : k \in 0..n}

Destinations == BoundedSeq(Alphabet, MaxLen)

\* String.prototype.includes for a one-character needle
Includes(s, ch) == \E i \in 1..Len(s) : s[i] = ch

\* the suffix of the template literal `${phoneNumber}@s.whatsapp.net`
CanonicalSuffix == <<"@", "s.whatsapp.net">>

----------------------------------------------------------------------------
(* sendMessage: src/index.js 124-162, src/example.js 188-213 *)

Impls == {"index.js", "example.js"}

JidAlwaysSuffixed(p) == p \o CanonicalSuffix

\* const jid = phoneNumber.includes('@') ? phoneNumber : `${phoneNumber}@s.whatsapp.net`
Jid(p) == IF Includes(p, "@") THEN p ELSE p \o CanonicalSuffix

IssueQueryTwice(log, p) ==
    log \o <<[op |-> "onWhatsApp", arg |-> p], [op |-> "onWhatsApp", arg |-> p]>>

\* sock.onWhatsApp(phoneNumber)
IssueQuery(log, p) == Append(log, [op |-> "onWhatsApp", arg |-> p])

\* sock.sendMessage(jid, { text: message })
IssueSend(log, j) == Append(log, [op |-> "sendMessage", arg |-> j])

RegisteredIfListed(items) == Len(items) >= 1

\* const [result] = ...; the negation of (!result || !result.exists)
Registered(items) == Len(items) >= 1 /\ items[1].exists

\* values a transport promise can reject with: an Error with a message, a
\* thrown value that has no message property (a string), and undefined
NoRaise == [t |-> "none", message |-> Undef]
RaisedValues ==
    { [t |-> "Error", message |-> Str("Timed Out")],
      [t |-> "Error", message |-> Str("Connection Closed")],
      [t |-> "string", message |-> Undef],
      [t |-> "undefined", message |-> Undef] }

\* the TypeErrors the JavaScript of sendMessage itself raises
NotIterable == [t |-> "Error", message |-> Str("undefined is not iterable")]
NoKeyOfUndefined ==
    [t |-> "Error", message |-> Str("Cannot read properties of undefined (reading 'key')")]

\* what onWhatsApp resolves with: a list of results, or no list at all
ResultLists == {<<>>, <<[exists |-> TRUE]>>, <<[exists |-> FALSE]>>}
Pending == [kind |-> "pending", isList |-> FALSE, items |-> <<>>,
            id |-> Undef, ts |-> Undef, raised |-> NoRaise]
ResolvedList(items) == [Pending EXCEPT !.kind = "resolved", !.isList = TRUE, !.items = items]
ResolvedUndefined == [Pending EXCEPT !.kind = "resolved"]
ResolvedMessage(id, ts) == [Pending EXCEPT !.kind = "resolved", !.id = id, !.ts = ts]
Rejected(e) == [Pending EXCEPT !.kind = "rejected", !.raised = e]

\* what sock.sendMessage resolves with: a message (key.id, messageTimestamp)
MessageIds == {"ABC123", "3EB0F1"}
Timestamps == {1700000000}

NoOutcome == [success |-> FALSE, messageId |-> Undef, timestamp |-> Undef, error |-> Undef]

\* { success: true, messageId: sentMessage.key.id, timestamp: sentMessage.messageTimestamp }
SuccessOutcome(id, ts) == [success |-> TRUE, messageId |-> id, timestamp |-> ts, error |-> Undef]

\* { success: false, error: ... }
FailureOutcome(text) ==
    [success |-> FALSE, messageId |-> Undef, timestamp |-> Undef, error |-> text]

\* the fixed text of the not-registered outcome (the Russian literals of
\* index.js 138 and example.js 196, transliterated)
NotRegisteredText(impl) ==
    IF impl = "index.js" THEN Str("Nomer ne zaregistrirovan v WhatsApp")
                         ELSE Str("Nomer ne zaregistrirovan")

GenericErrorText(e) == Str("send failed")

\* error.message in the catch block
ErrorText(e) == e.message

\* the catch block: reading error.message of undefined raises a TypeError
\* out of the handler, so the promise of sendMessage rejects
Catch(e) ==
    IF e.t = "undefined"
    THEN /\ smPc' = "rejected"
         /\ outcome' = NoOutcome
    ELSE /\ smPc' = "returned"
         /\ outcome' = FailureOutcome(ErrorText(e))

\* the call, up to the first await
sendMessage(impl, p) ==
    /\ smPc = "idle"
    /\ smImpl' = impl
    /\ phoneNumber' = p
    /\ jid' = Jid(p)
    /\ calls' = IssueQuery(calls, p)
    /\ smPc' = "awaitQuery"
    /\ UNCHANGED <<queryReply, sendReply, outcome>>
    /\ UNCHANGED <<lifeVars, procVars, inVars, credVars, exVars>>

\* onWhatsApp resolves with a list: up to the return or the second await
OnWhatsAppResolvesList(items) ==
    /\ smPc = "awaitQuery"
    /\ queryReply' = ResolvedList(items)
    /\ IF ~Registered(items)
       THEN /\ smPc' = "returned"
            /\ outcome' = FailureOutcome(NotRegisteredText(smImpl))
            /\ UNCHANGED calls
       ELSE /\ calls' = IssueSend(calls, jid)
            /\ smPc' = "awaitSend"
            /\ UNCHANGED outcome
    /\ UNCHANGED <<smImpl, phoneNumber, jid, sendReply>>
    /\ UNCHANGED <<lifeVars, procVars, inVars, credVars, exVars>>

\* onWhatsApp resolves with no list: the destructuring raises a TypeError
OnWhatsAppResolvesUndefined ==
    /\ smPc = "awaitQuery"
    /\ queryReply' = ResolvedUndefined
    /\ Catch(NotIterable)
    /\ UNCHANGED <<smImpl, phoneNumber, jid, calls, sendReply>>
    /\ UNCHANGED <<lifeVars, procVars, inVars, credVars, exVars>>

OnWhatsAppRejects(e) ==
    /\ smPc = "awaitQuery"
    /\ queryReply' = Rejected(e)
    /\ Catch(e)
    /\ UNCHANGED <<smImpl, phoneNumber, jid, calls, sendReply>>
    /\ UNCHANGED <<lifeVars, procVars, inVars, credVars, exVars>>

SendResolvesMessage(id, ts) ==
    /\ smPc = "awaitSend"
    /\ sendReply' = ResolvedMessage(Str(id), Num(ts))
    /\ smPc' = "returned"
    /\ outcome' = SuccessOutcome(Str(id), Num(ts))
    /\ UNCHANGED <<smImpl, phoneNumber, jid, calls, queryReply>>
    /\ UNCHANGED <<lifeVars, procVars, inVars, credVars, exVars>>

\* sendMessage of the transport may resolve with undefined: sentMessage.key raises
SendResolvesUndefined ==
    /\ smPc = "awaitSend"
    /\ sendReply' = ResolvedUndefined
    /\ Catch(NoKeyOfUndefined)
    /\ UNCHANGED <<smImpl, phoneNumber, jid, calls, queryReply>>
    /\ UNCHANGED <<lifeVars, procVars, inVars, credVars, exVars>>

SendRejects(e) ==
    /\ smPc = "awaitSend"
    /\ sendReply' = Rejected(e)
    /\ Catch(e)
    /\ UNCHANGED <<smImpl, phoneNumber, jid, calls, queryReply>>
    /\ UNCHANGED <<lifeVars, procVars, inVars, credVars, exVars>>

SendInit ==
    /\ smPc = "idle"
    /\ smImpl = "index.js"
    /\ phoneNumber = <<>>
    /\ jid = <<>>
    /\ calls = <<>>
    /\ queryReply = Pending
    /\ sendReply = Pending
    /\ outcome = NoOutcome

SendNext ==
    \/ \E impl \in Impls, p \in Destinations : sendMessage(impl, p)
    \/ \E items \in ResultLists : OnWhatsAppResolvesList(items)
    \/ OnWhatsAppResolvesUndefined
    \/ \E e \in RaisedValues : OnWhatsAppRejects(e)
    \/ \E id \in MessageIds, ts \in Timestamps : SendResolvesMessage(id, ts)
    \/ SendResolvesUndefined
    \/ \E e \in RaisedValues : SendRejects(e)

----------------------------------------------------------------------------
(* startWhatsAppBot and its connection.update observer: src/index.js 24-116;
   connectWhatsApp: src/example.js 143-186 *)

\* DisconnectReason.loggedOut of the transport library
LoggedOut == 401

\* await delay(3000)
ReconnectDelayMs == 3000

\* what a close event carries as lastDisconnect; "none" is a close event
\* with no lastDisconnect at all
Reasons == {"loggedOut", "connectionLost", "restartRequired", "none"}

\* lastDisconnect?.error?.output?.statusCode
StatusCode(reason) ==
    CASE reason = "loggedOut" -> Num(LoggedOut)
      [] reason = "connectionLost" -> Num(408)
      [] reason = "restartRequired" -> Num(515)
      [] OTHER -> Undef

AlwaysReconnect(reason) == TRUE

\* const shouldReconnect = (...)?.output?.statusCode !== DisconnectReason.loggedOut
ShouldReconnect(reason) == StatusCode(reason) # Num(LoggedOut)

Min(a, b) == IF a < b THEN a ELSE b

\* the start function from its first await on: the credentials are loaded,
\* the socket is made, the observers are registered and the socket returned.
\* Only the code that awaited the first start keeps what it returns: the
\* observer drops the promise of the start it re-invokes.
StartReturns(s) ==
    /\ proc = "running"
    /\ s \in DOMAIN starts
    /\ starts[s].pc = "loading"
    /\ socks' = Append(socks, [conn |-> "connecting", by |-> s])
    /\ starts' = [starts EXCEPT ![s].pc = "returned", ![s].sock = Len(socks) + 1]
    /\ callerSock' = IF starts[s].by = 0 THEN Len(socks) + 1 ELSE callerSock
    /\ UNCHANGED closeObs
    /\ UNCHANGED procVars
    /\ UNCHANGED <<sendVars, inVars, credVars, exVars>>

\* an unhandled promise rejection: Node ends the process (the default since
\* Node 15) or only warns (older Node, --unhandled-rejections=warn)
AfterUnhandledRejection == IF rejectionMode = "throw" THEN "exited" ELSE proc

\* the start function fails: useMultiFileAuthState or makeWASocket raises.
\* The first start has .catch(err => process.exit(1)) attached (index.js
\* 180-183); the start the observer re-invokes has no handler at all.
StartFails(s) ==
    /\ proc = "running"
    /\ s \in DOMAIN starts
    /\ starts[s].pc = "loading"
    /\ starts' = [starts EXCEPT ![s].pc = "failed"]
    /\ proc' = IF starts[s].by = 0 THEN "exited" ELSE AfterUnhandledRejection
    /\ UNCHANGED <<socks, closeObs, callerSock, rejectionMode, openRejected>>
    /\ UNCHANGED <<sendVars, inVars, credVars, exVars>>

\* connection.update with connection === 'open', sock.user populated
ConnectionOpen(i) ==
    /\ proc = "running"
    /\ i \in DOMAIN socks
    /\ socks[i].conn = "connecting"
    /\ socks' = [socks EXCEPT ![i].conn = "open"]
    /\ UNCHANGED <<starts, closeObs, callerSock>>
    /\ UNCHANGED procVars
    /\ UNCHANGED <<sendVars, inVars, credVars, exVars>>

\* connection.update with connection === 'open' while sock.user is still
\* undefined: sock.user.id raises a TypeError, the promise of the async
\* observer rejects and nothing handles it
ConnectionOpenNoUser(i) ==
    /\ proc = "running"
    /\ i \in DOMAIN socks
    /\ socks[i].conn = "connecting"
    /\ socks' = [socks EXCEPT ![i].conn = "open"]
    /\ openRejected' = openRejected \cup {i}
    /\ proc' = AfterUnhandledRejection
    /\ UNCHANGED <<starts, closeObs, callerSock, rejectionMode>>
    /\ UNCHANGED <<sendVars, inVars, credVars, exVars>>

\* connection.update with connection === 'close': the observer up to its
\* await delay(3000), or to its end when it does not reconnect
ConnectionClose(i, reason) ==
    /\ proc = "running"
    /\ i \in DOMAIN socks
    /\ Len(closeObs) < MaxCloseEvents
    /\ socks' = [socks EXCEPT ![i].conn = "close"]
    /\ closeObs' = Append(closeObs,
           [sock |-> i, reason |-> reason, elapsed |-> 0,
            pc |-> IF ShouldReconnect(reason) THEN "delay" ELSE "done"])
    /\ UNCHANGED <<starts, callerSock>>
    /\ UNCHANGED procVars
    /\ UNCHANGED <<sendVars, inVars, credVars, exVars>>

\* time passes for every observer waiting in delay(3000)
Tick ==
    /\ proc = "running"
    /\ \E h \in DOMAIN closeObs :
           closeObs[h].pc = "delay" /\ closeObs[h].elapsed < ReconnectDelayMs
    /\ closeObs' = [h \in DOMAIN closeObs |->
           IF closeObs[h].pc = "delay"
           THEN [closeObs[h] EXCEPT
                    !.elapsed = Min(closeObs[h].elapsed + TickMs, ReconnectDelayMs)]
           ELSE closeObs[h]]
    /\ UNCHANGED <<starts, socks, callerSock>>
    /\ UNCHANGED procVars
    /\ UNCHANGED <<sendVars, inVars, credVars, exVars>>

\* the delay is over: the observer invokes the start function, which runs
\* to its first await, and the observer ends
DelayElapses(h) ==
    /\ proc = "running"
    /\ h \in DOMAIN closeObs
    /\ closeObs[h].pc = "delay"
    /\ closeObs[h].elapsed >= ReconnectDelayMs
    /\ starts' = Append(starts, [by |-> h, pc |-> "loading", sock |-> 0])
    /\ closeObs' = [closeObs EXCEPT ![h].pc = "done"]
    /\ UNCHANGED <<socks, callerSock>>
    /\ UNCHANGED procVars
    /\ UNCHANGED <<sendVars, inVars, credVars, exVars>>

\* the program has been launched: startWhatsAppBot() of index.js 180 (the
\* awaited connectWhatsApp() of example.js) is at its first await
LifeInit ==
    /\ starts = <<[by |-> 0, pc |-> "loading", sock |-> 0]>>
    /\ socks = <<>>
    /\ closeObs = <<>>
    /\ callerSock = 0
    /\ proc = "running"
    /\ rejectionMode \in {"throw", "warn"}
    /\ openRejected = {}

LifeNext ==
    \/ \E s \in DOMAIN starts : StartReturns(s)
    \/ \E s \in DOMAIN starts : StartFails(s)
    \/ \E i \in DOMAIN socks : ConnectionOpen(i)
    \/ \E i \in DOMAIN socks : ConnectionOpenNoUser(i)
    \/ \E i \in DOMAIN socks, reason \in Reasons : ConnectionClose(i, reason)
    \/ Tick
    \/ \E h \in DOMAIN closeObs : DelayElapses(h)

----------------------------------------------------------------------------
(* the messages.upsert observers: src/index.js 92-113 (logs only, its
   auto-reply is commented out) and src/example.js 80-107 (auto-responder) *)

UpsertTypes == {"notify", "append"}

Senders == {"79123456789@s.whatsapp.net", "79987654321@s.whatsapp.net"}

\* a message body is a sequence of words; "Privet" is the greeting keyword
\* with a capital letter, "ok" a word that is no keyword
Words == {"Privet", "pomosh", "vremya", "ok"}
Bodies == BoundedSeq(Words, MaxWords)

\* the messages of a batch: key.fromMe, key.remoteJid, message.conversation
\* and message.extendedTextMessage.text (<<>> when absent or empty)
Messages ==
    [fromMe : BOOLEAN, remoteJid : Senders, conversation : Bodies, extendedText : Bodies]

\* the messages the batches of a longer run are built from
InboundMessages ==
    [fromMe : BOOLEAN, remoteJid : {"79123456789@s.whatsapp.net"},
     conversation : {<<"Privet">>, <<"ok">>}, extendedText : {<<>>}]

AnyType(type) == TRUE

\* the negation of: if (type !== 'notify') return
IsLive(type) == type = "notify"

SkipNone(m) == FALSE

\* if (message.key.fromMe) continue
Skip(m) == m.fromMe

\* message.message?.conversation || message.message?.extendedTextMessage?.text || ''
MessageText(m) ==
    IF m.conversation # <<>> THEN m.conversation
    ELSE IF m.extendedText # <<>> THEN m.extendedText
    ELSE <<>>

\* String.prototype.toLowerCase
ToLowerCase(text) ==
    [k \in 1..Len(text) |-> IF text[k] = "Privet" THEN "privet" ELSE text[k]]

ReplyForHelpFirst(text) ==
    LET t == ToLowerCase(text)
    IN  IF Includes(t, "pomosh") THEN "help"
        ELSE IF Includes(t, "privet") THEN "greeting"
        ELSE IF Includes(t, "vremya") THEN "time"
        ELSE "none"

\* the if / else if chain of the auto-responder (example.js 94-105); the
\* keywords are the transliterated literals of the source
ReplyFor(text) ==
    LET t == ToLowerCase(text)
    IN  IF Includes(t, "privet") THEN "greeting"
        ELSE IF Includes(t, "pomosh") THEN "help"
        ELSE IF Includes(t, "vremya") THEN "time"
        ELSE "none"

\* the reply the registered observer sends for a body, if any
ReplyKind(impl, text) == IF impl = "example.js" THEN ReplyFor(text) ELSE "none"

NewRun(type, messages) ==
    [type |-> type, messages |-> messages, idx |-> 0, pc |-> "done",
     handled |-> {}, replies |-> <<>>]

\* the for loop from message i on, up to the next await sock.sendMessage or
\* to its end
RECURSIVE Loop(_, _, _)
Loop(impl, run, i) ==
    IF i > Len(run.messages)
    THEN [run EXCEPT !.idx = i, !.pc = "done"]
    ELSE LET m == run.messages[i]
             kind == ReplyKind(impl, MessageText(m))
             seen == [run EXCEPT !.handled = @ \cup {i}]
         IN  IF Skip(m) THEN Loop(impl, run, i + 1)
             ELSE IF kind = "none" THEN Loop(impl, seen, i + 1)
             ELSE [seen EXCEPT !.idx = i, !.pc = "awaitReply",
                               !.replies = Append(@, [i |-> i, to |-> m.remoteJid,
                                                      kind |-> kind])]

\* the transport emits messages.upsert: the observer runs to its first await
\* or to its end; the emitter does not wait for the promise it returns
MessagesUpsert(type, messages) ==
    /\ runs' = Append(runs, IF IsLive(type)
                            THEN Loop(inImpl, NewRun(type, messages), 1)
                            ELSE NewRun(type, messages))
    /\ UNCHANGED inImpl
    /\ UNCHANGED <<sendVars, lifeVars, procVars, credVars, exVars>>

\* the awaited sock.sendMessage of a reply resolves: the loop goes on
ReplyResolves(r) ==
    /\ r \in DOMAIN runs
    /\ runs[r].pc = "awaitReply"
    /\ runs' = [runs EXCEPT ![r] = Loop(inImpl, runs[r], runs[r].idx + 1)]
    /\ UNCHANGED inImpl
    /\ UNCHANGED <<sendVars, lifeVars, procVars, credVars, exVars>>

\* the awaited sock.sendMessage of a reply rejects: nothing catches it, the
\* loop is left and the promise of the observer rejects
ReplyRejects(r) ==
    /\ r \in DOMAIN runs
    /\ runs[r].pc = "awaitReply"
    /\ runs' = [runs EXCEPT ![r].pc = "rejected"]
    /\ UNCHANGED inImpl
    /\ UNCHANGED <<sendVars, lifeVars, procVars, credVars, exVars>>

RECURSIVE Received(_)
Received(rs) == IF rs = <<>> THEN 0 ELSE Len(Head(rs).messages) + Received(Tail(rs))

InboundInit ==
    /\ inImpl \in Impls
    /\ runs = <<>>

\* batches of any type, built from InboundMessages
InboundNext ==
    \/ \E type \in UpsertTypes :
           \E messages \in BoundedSeq(InboundMessages, MaxInbound - Received(runs)) \ {<<>>} :
               MessagesUpsert(type, messages)
    \/ \E r \in DOMAIN runs : ReplyResolves(r)
    \/ \E r \in DOMAIN runs : ReplyRejects(r)

\* one live batch of one message, of any body
RouteNext ==
    \/ runs = <<>> /\ \E m \in Messages : MessagesUpsert("notify", <<m>>)
    \/ \E r \in DOMAIN runs : ReplyResolves(r)
    \/ \E r \in DOMAIN runs : ReplyRejects(r)

----------------------------------------------------------------------------
(* saveCreds and the SIGINT handler: src/index.js 87, 186-189 *)

\* the transport emits creds.update: saveCreds starts writing the
\* credentials; the emitter does not wait for the promise it returns
CredsUpdate ==
    /\ proc = "running"
    /\ Len(writes) < MaxCredsUpdates
    /\ writes' = Append(writes, "inFlight")
    /\ UNCHANGED <<completed, procVars>>
    /\ UNCHANGED <<sendVars, lifeVars, inVars, exVars>>

\* a write of saveCreds reaches the disk
WriteCompletes(w) ==
    /\ proc = "running"
    /\ w \in DOMAIN writes
    /\ writes[w] = "inFlight"
    /\ writes' = [writes EXCEPT ![w] = "done"]
    /\ completed' = Append(completed, w)
    /\ UNCHANGED procVars
    /\ UNCHANGED <<sendVars, lifeVars, inVars, exVars>>

\* process.on('SIGINT', () => { ...; process.exit(0) })
Sigint ==
    /\ proc = "running"
    /\ proc' = "exited"
    /\ UNCHANGED <<rejectionMode, openRejected, writes, completed>>
    /\ UNCHANGED <<sendVars, lifeVars, inVars, exVars>>

CredsInit ==
    /\ writes = <<>>
    /\ completed = <<>>

CredsNext ==
    \/ CredsUpdate
    \/ \E w \in DOMAIN writes : WriteCompletes(w)
    \/ Sigint

----------------------------------------------------------------------------
(* The observers of each socket, and messages.upsert emitted on a socket *)

\* the three events the program observes
AllObservers == {"connection.update", "creds.update", "messages.upsert"}

\* sock.ev.on(...) inside the start function: startWhatsAppBot registers
\* three observers on the socket it makes, connectWhatsApp two
StartObservers(impl) ==
    IF impl = "index.js" THEN {"connection.update", "creds.update", "messages.upsert"}
    ELSE {"connection.update", "creds.update"}

\* sock.ev.on('messages.upsert', ...) of example3_autoResponder, on the
\* const sock its await of connectWhatsApp returned; nothing awaits the
\* re-invocations of the start function
CallerObservers(impl, i) ==
    IF impl = "example.js" /\ i = callerSock THEN {"messages.upsert"} ELSE {}

\* the observers registered on socket i
Observers(impl, i) == StartObservers(impl) \cup CallerObservers(impl, i)

\* batches of one message that this account did not send
PeerBatches == {<<m>> : m \in {x \in InboundMessages : ~x.fromMe}}

\* the transport emits messages.upsert on socket i: the observers registered
\* on that socket run, the observers of other sockets do not
UpsertOn(i, type, messages) ==
    /\ proc = "running"
    /\ i \in DOMAIN socks
    /\ socks[i].conn = "open"
    /\ Len(arrivals) < MaxArrivals
    /\ IF "messages.upsert" \in Observers(inImpl, i)
       THEN /\ runs' = Append(runs, IF IsLive(type)
                                    THEN Loop(inImpl, NewRun(type, messages), 1)
                                    ELSE NewRun(type, messages))
            /\ arrivals' = Append(arrivals, [sock |-> i, run |-> Len(runs) + 1])
       ELSE /\ arrivals' = Append(arrivals, [sock |-> i, run |-> 0])
            /\ UNCHANGED runs
    /\ UNCHANGED <<inImpl, ex1>>
    /\ UNCHANGED <<sendVars, lifeVars, procVars, credVars>>

\* const phoneNumber = '79123456789' of example1_sendSingleMessage
Ex1PhoneNumber == <<"7">>

\* connection.update with connection === 'open' while
\* example1_sendSingleMessage runs.  The observer of connectWhatsApp logs;
\* the observer that example1 registered on the const sock its await
\* returned calls resolve(), and example1 goes on to sendMessage(sock, ...),
\* up to the first await of sendMessage.  An 'open' of another socket
\* reaches no observer of example1.
Ex1ConnectionOpen(i) ==
    /\ proc = "running"
    /\ i \in DOMAIN socks
    /\ socks[i].conn = "connecting"
    /\ socks' = [socks EXCEPT ![i].conn = "open"]
    /\ IF i = callerSock /\ ex1.pc = "waiting"
       THEN /\ ex1' = [pc |-> "called", sock |-> callerSock,
                       conn |-> socks'[callerSock].conn]
            /\ smPc' = "awaitQuery"
            /\ smImpl' = "example.js"
            /\ phoneNumber' = Ex1PhoneNumber
            /\ jid' = Jid(Ex1PhoneNumber)
            /\ calls' = IssueQuery(calls, Ex1PhoneNumber)
            /\ UNCHANGED <<queryReply, sendReply, outcome>>
       ELSE /\ UNCHANGED ex1
            /\ UNCHANGED sendVars
    /\ UNCHANGED <<starts, closeObs, callerSock>>
    /\ UNCHANGED procVars
    /\ UNCHANGED <<inVars, credVars, arrivals>>

\* example1 has not passed its wait for 'open'; no messages.upsert emitted
SessionInit ==
    /\ arrivals = <<>>
    /\ ex1 = [pc |-> "waiting", sock |-> 0, conn |-> "none"]

Example1Next ==
    \/ \E s \in DOMAIN starts : StartReturns(s)
    \/ \E i \in DOMAIN socks : Ex1ConnectionOpen(i)
    \/ \E i \in DOMAIN socks, reason \in Reasons : ConnectionClose(i, reason)
    \/ Tick
    \/ \E h \in DOMAIN closeObs : DelayElapses(h)

SessionNext ==
    \/ \E s \in DOMAIN starts : StartReturns(s)
    \/ \E i \in DOMAIN socks : ConnectionOpen(i)
    \/ \E i \in DOMAIN socks, reason \in Reasons : ConnectionClose(i, reason)
    \/ Tick
    \/ \E h \in DOMAIN closeObs : DelayElapses(h)
    \/ \E i \in DOMAIN socks, b \in PeerBatches : UpsertOn(i, "notify", b)
    \/ \E r \in DOMAIN runs : ReplyResolves(r)
    \/ \E r \in DOMAIN runs : ReplyRejects(r)

----------------------------------------------------------------------------

Init == SendInit /\ LifeInit /\ InboundInit /\ CredsInit /\ SessionInit

Next == SendNext \/ LifeNext \/ InboundNext \/ CredsNext

Spec == Init /\ [][Next]_vars

\* one invocation of sendMessage against a free transport
SpecSend == Init /\ [][SendNext]_vars

\* the session lifecycle against a free transport
SpecLife == Init /\ [][LifeNext]_vars

\* the messages.upsert observer on the batches of a run
SpecInbound == Init /\ [][InboundNext]_vars

\* the messages.upsert observer on one message of any body
SpecRoute == Init /\ [][RouteNext]_vars

\* credential writes and the shutdown signal
SpecCreds == Init /\ [][CredsNext]_vars

\* program launch; no action of the two specifications below ends the
\* process, so one rejection mode is enough
SessionStart == Init /\ rejectionMode = "throw"

\* launch of example1_sendSingleMessage
Example1Start == SessionStart /\ inImpl = "example.js"

\* example1_sendSingleMessage against a free transport.  What the program
\* itself schedules goes on: the awaited start function settles, time passes
\* and an elapsed delay(3000) resumes its observer.  Nothing is assumed of
\* the events of the transport.
SpecExample1 ==
    /\ Example1Start
    /\ [][Example1Next]_vars
    /\ WF_vars(\E s \in DOMAIN starts : StartReturns(s))
    /\ WF_vars(Tick)
    /\ WF_vars(\E h \in DOMAIN closeObs : DelayElapses(h))

\* the session lifecycle with messages.upsert emitted on the open sockets
SpecSession == SessionStart /\ [][SessionNext]_vars

----------------------------------------------------------------------------
(* Properties of sendMessage, checked under SpecSend *)

QueryCalls == SelectSeq(calls, LAMBDA c : c.op = "onWhatsApp")
SendCalls == SelectSeq(calls, LAMBDA c : c.op = "sendMessage")

\* C1: every outcome record sendMessage returns has success true exactly
\* when messageId and timestamp are present and error is absent, and success
\* false exactly when error is present and messageId and timestamp are absent.
C1_OutcomeShape ==
    smPc = "returned" =>
        /\ outcome.success <=>
               (/\ Present(outcome.messageId)
                /\ Present(outcome.timestamp)
                /\ ~Present(outcome.error))
        /\ ~outcome.success <=>
               (/\ Present(outcome.error)
                /\ ~Present(outcome.messageId)
                /\ ~Present(outcome.timestamp))

\* C2: sendMessage never throws: whatever the transport does, the promise
\* of sendMessage never rejects.
C2_NeverRejects == smPc # "rejected"

\* C3: when the deliverability query answers exists = false, sendMessage
\* returns the fixed not-registered failure outcome, without messageId or
\* timestamp, and the send operation of the transport is never called.
C3_AbsentDestinationNoSend ==
    queryReply = ResolvedList(<<[exists |-> FALSE]>>) =>
        /\ smPc = "returned"
        /\ outcome.success = FALSE
        /\ outcome.error \in {Str("Nomer ne zaregistrirovan v WhatsApp"),
                              Str("Nomer ne zaregistrirovan")}
        /\ ~Present(outcome.messageId)
        /\ ~Present(outcome.timestamp)
        /\ SendCalls = <<>>

C3_Witness ==
    /\ queryReply = ResolvedList(<<[exists |-> FALSE]>>)
    /\ smPc = "returned"
    /\ Len(phoneNumber) > 0

\* C4: when the deliverability query or the send raises an error that has a
\* message text, sendMessage returns a failure outcome whose error field is
\* exactly that text.
C4_RaisedMessageVerbatim ==
    \A r \in {queryReply, sendReply} :
        (r.kind = "rejected" /\ r.raised.t = "Error") =>
            /\ smPc = "returned"
            /\ outcome.success = FALSE
            /\ outcome.error = r.raised.message
            /\ ~Present(outcome.messageId)
            /\ ~Present(outcome.timestamp)

C4_Witness ==
    /\ sendReply.kind = "rejected"
    /\ sendReply.raised = [t |-> "Error", message |-> Str("Timed Out")]
    /\ smPc = "returned"

\* C5: an invocation of sendMessage issues exactly one deliverability query
\* and at most one send, the send only after the query has completed; no
\* path issues a call again.
C5_OneQueryAtMostOneSend ==
    /\ smPc = "idle" => calls = <<>>
    /\ smPc # "idle" =>
           /\ Len(QueryCalls) = 1
           /\ Len(SendCalls) <= 1
           /\ calls[1].op = "onWhatsApp"
           /\ Len(SendCalls) = 1 => queryReply.kind = "resolved"
           /\ smPc = "awaitQuery" => queryReply.kind = "pending"

C5_Witness ==
    /\ smPc = "returned"
    /\ sendReply.kind = "rejected"
    /\ Len(QueryCalls) = 1
    /\ Len(SendCalls) = 1

\* the bare form of a destination: the canonical suffix stripped
EndsWithSuffix(p) ==
    /\ Len(p) >= Len(CanonicalSuffix)
    /\ SubSeq(p, Len(p) - Len(CanonicalSuffix) + 1, Len(p)) = CanonicalSuffix
BareForm(p) ==
    IF EndsWithSuffix(p) THEN SubSeq(p, 1, Len(p) - Len(CanonicalSuffix)) ELSE p

\* C6: for a bare destination d, passed as d or as d@<domain>, sendMessage
\* queries deliverability with the bare form d and sends to the
\* fully-qualified form d@<domain>.
C6_QueryBareSendQualified ==
    (Len(BareForm(phoneNumber)) > 0 /\ ~Includes(BareForm(phoneNumber), "@")) =>
        \A i \in DOMAIN calls :
            /\ calls[i].op = "onWhatsApp" => calls[i].arg = BareForm(phoneNumber)
            /\ calls[i].op = "sendMessage" =>
                   calls[i].arg = BareForm(phoneNumber) \o CanonicalSuffix

\* C7: the send address is the destination unchanged when it contains '@'
\* and the destination with the canonical suffix appended otherwise, so that
\* normalizing it again changes nothing; the deliverability query is given
\* the destination as the caller passed it, which is not the normalized
\* form whenever normalizing changes the destination.
C7_NormalizedSendRawQuery ==
    smPc # "idle" =>
        /\ Includes(phoneNumber, "@") => jid = phoneNumber
        /\ ~Includes(phoneNumber, "@") =>
               /\ jid = phoneNumber \o <<"@", "s.whatsapp.net">>
               /\ jid # phoneNumber
        /\ Jid(jid) = jid
        /\ \A i \in DOMAIN calls :
               /\ calls[i].op = "onWhatsApp" => calls[i].arg = phoneNumber
               /\ calls[i].op = "sendMessage" => calls[i].arg = jid

C7_Witness ==
    /\ Len(SendCalls) = 1
    /\ ~Includes(phoneNumber, "@")
    /\ Len(phoneNumber) > 0

----------------------------------------------------------------------------
(* Properties of the session lifecycle, checked under SpecLife *)

\* the starts a run of the close observer has invoked
Restarts(h) == {s \in DOMAIN starts : starts[s].by = h}

\* C8: a close event whose reason is not loggedOut (a close event without
\* a reason included) triggers exactly one re-invocation of the start
\* function, and only after the delay of 3000 ms has elapsed; a close event
\* whose reason is loggedOut triggers none, and its observer has ended.
C8_ReconnectPolicy ==
    \A h \in DOMAIN closeObs :
        /\ closeObs[h].reason = "loggedOut" =>
               /\ Restarts(h) = {}
               /\ closeObs[h].pc = "done"
        /\ closeObs[h].reason # "loggedOut" =>
               /\ closeObs[h].pc = "delay" => Restarts(h) = {}
               /\ closeObs[h].pc = "done" => Cardinality(Restarts(h)) = 1
               /\ Restarts(h) # {} => closeObs[h].elapsed >= 3000

C8_Witness ==
    \E h, g \in DOMAIN closeObs :
        /\ closeObs[h].reason = "none"
        /\ closeObs[h].pc = "done"
        /\ Cardinality(Restarts(h)) = 1
        /\ closeObs[g].reason = "loggedOut"

\* the sessions that have been started and have not been closed
LiveSessions == {i \in DOMAIN socks : socks[i].conn # "close"}

\* C9: at most one session that has been started and not yet closed exists
\* at any time, over every sequence of connection-state events.
C9_AtMostOneSession == Cardinality(LiveSessions) <= 1

\* C10: once a start re-invoked by the reconnect policy has returned its
\* socket, the handle held by the code that called start is that new
\* session, not the closed one.
C10_HandleReplaced ==
    \A s \in DOMAIN starts :
        (starts[s].by # 0 /\ starts[s].pc = "returned" /\ starts[s].sock = Len(socks)) =>
            callerSock = starts[s].sock

----------------------------------------------------------------------------
(* Properties of the messages.upsert observers, checked under SpecInbound
   and SpecRoute *)

\* the replies a run has sent for its message i
RepliesFor(run, i) == SelectSeq(run.replies, LAMBDA x : x.i = i)

\* how far the loop of a run has come
Reached(run) == IF run.pc = "done" THEN Len(run.messages) ELSE run.idx

\* C11: a batch whose type is not 'notify' causes no per-message processing
\* and no reply, whatever messages it contains.
C11_BacklogSuppressed ==
    \A r \in DOMAIN runs :
        runs[r].type # "notify" =>
            /\ runs[r].handled = {}
            /\ runs[r].replies = <<>>
            /\ runs[r].pc = "done"

C11_Witness ==
    /\ inImpl = "example.js"
    /\ \E r \in DOMAIN runs :
           /\ runs[r].type = "append"
           /\ \E i \in DOMAIN runs[r].messages :
                  /\ ~runs[r].messages[i].fromMe
                  /\ runs[r].messages[i].conversation = <<"Privet">>

\* C12: in a live batch a message sent by this account (fromMe) is never
\* processed and never replied to, whatever its body, and the messages the
\* loop has come to that are not sent by this account have all been
\* processed: a skipped message does not stop the loop.
C12_SelfSuppressed ==
    \A r \in DOMAIN runs :
        runs[r].type = "notify" =>
            \A i \in DOMAIN runs[r].messages :
                /\ runs[r].messages[i].fromMe =>
                       /\ i \notin runs[r].handled
                       /\ RepliesFor(runs[r], i) = <<>>
                /\ (~runs[r].messages[i].fromMe /\ i <= Reached(runs[r])) =>
                       i \in runs[r].handled

C12_Witness ==
    /\ inImpl = "example.js"
    /\ \E r \in DOMAIN runs :
           /\ runs[r].type = "notify"
           /\ Len(runs[r].messages) >= 2
           /\ runs[r].messages[1].fromMe
           /\ runs[r].messages[1].conversation = <<"Privet">>
           /\ 2 \in runs[r].handled
           /\ RepliesFor(runs[r], 2) # <<>>

\* C13: when the transport emits batch B1 and then batch B2, the processing
\* of B1, the reply sends it awaits included, is complete before the
\* processing of any message of B2 begins.
C13_BatchesInOrder ==
    \A r1, r2 \in DOMAIN runs :
        (r1 < r2 /\ runs[r2].handled # {}) => runs[r1].pc # "awaitReply"

\* C19: the messages of a live batch are processed one at a time in arrival
\* order, a message only after the reply send of the one before it has
\* completed, and a reply send that raises does not keep the later messages
\* of the batch from being processed.
C19_SequentialAndResilient ==
    \A r \in DOMAIN runs :
        runs[r].type = "notify" =>
            /\ runs[r].pc = "awaitReply" => \A i \in runs[r].handled : i <= runs[r].idx
            /\ \A j, k \in DOMAIN runs[r].replies :
                   j < k => runs[r].replies[j].i < runs[r].replies[k].i
            /\ runs[r].pc \in {"done", "rejected"} =>
                   \A i \in DOMAIN runs[r].messages :
                       ~runs[r].messages[i].fromMe => i \in runs[r].handled

\* whether the body of a message contains a keyword, in any case of letters
HasWord(m, kw) ==
    \E k \in DOMAIN MessageText(m) :
        \/ MessageText(m)[k] = kw
        \/ kw = "privet" /\ MessageText(m)[k] = "Privet"

\* C20: for every live message not sent by this account the auto-responder
\* sends at most one reply, to the sender of the message, chosen by the
\* first predicate that matches the body in the order greeting, help, time;
\* a body that matches none gets no reply.
C20_FirstMatchOnly ==
    inImpl = "example.js" =>
        \A r \in DOMAIN runs : \A i \in DOMAIN runs[r].messages :
            LET m == runs[r].messages[i]
                sent == RepliesFor(runs[r], i)
            IN  /\ Len(sent) <= 1
                /\ (Len(sent) = 1) <=>
                       (/\ i \in runs[r].handled
                        /\ HasWord(m, "privet") \/ HasWord(m, "pomosh") \/ HasWord(m, "vremya"))
                /\ Len(sent) = 1 =>
                       /\ sent[1].to = m.remoteJid
                       /\ sent[1].kind = "greeting" <=> HasWord(m, "privet")
                       /\ sent[1].kind = "help" <=>
                              (HasWord(m, "pomosh") /\ ~HasWord(m, "privet"))
                       /\ sent[1].kind = "time" <=>
                              (/\ HasWord(m, "vremya")
                               /\ ~HasWord(m, "privet")
                               /\ ~HasWord(m, "pomosh"))

C20_Witness ==
    /\ inImpl = "example.js"
    /\ \E r \in DOMAIN runs :
           /\ runs[r].pc = "done"
           /\ runs[r].messages[1].conversation = <<"pomosh", "Privet">>
           /\ runs[r].messages[1].remoteJid = "79987654321@s.whatsapp.net"
           /\ Len(RepliesFor(runs[r], 1)) = 1
           /\ runs[r].replies[1].kind = "greeting"

----------------------------------------------------------------------------
(* Properties of the process, checked under SpecLife and SpecCreds *)

\* C14: whenever the start function fails, at program launch or when the
\* reconnect policy re-invokes it, the process terminates.
C14_FailedStartTerminates ==
    \A s \in DOMAIN starts : starts[s].pc = "failed" => proc = "exited"

\* C15: the connection-state observer never throws: no run of it, an 'open'
\* event received before the account identity is populated included, ends
\* with its promise rejected.
C15_ObserverNeverRejects == openRejected = {}

\* the credential writes in flight
InFlight == {w \in DOMAIN writes : writes[w] = "inFlight"}

\* C16: a credential write completes before the transport goes on to its
\* next event, so that two writes are never in flight at once and the
\* writes complete in the order of their creds.update events.
C16_WritesSerialized ==
    /\ Cardinality(InFlight) <= 1
    /\ \A j, k \in DOMAIN completed : j < k => completed[j] < completed[k]

\* C17: the process does not exit on SIGINT while a credential write is in
\* flight.
C17_NoExitDuringWrite == proc = "exited" => InFlight = {}

----------------------------------------------------------------------------
(* A further property of sendMessage, checked under SpecSend *)

\* C18: when the deliverability query resolves with an empty list or with
\* no result value at all, sendMessage returns the same fixed not-registered
\* failure outcome as for exists = false and makes no send call.
C18_NoResultNotRegistered ==
    (queryReply = ResolvedList(<<>>) \/ queryReply = ResolvedUndefined) =>
        /\ smPc = "returned"
        /\ outcome.success = FALSE
        /\ outcome.error \in {Str("Nomer ne zaregistrirovan v WhatsApp"),
                              Str("Nomer ne zaregistrirovan")}
        /\ ~Present(outcome.messageId)
        /\ ~Present(outcome.timestamp)
        /\ SendCalls = <<>>

\* socket i was made by a re-invocation of the start function
Reconnected(i) == starts[socks[i].by].by # 0

\* C21: a socket made by an automatic reconnect has the three observers
\* (connection.update, creds.update, messages.upsert), and a live message
\* not sent by this account that arrives on such a socket is handled; for
\* the bot of index.js and for the auto-responder of example.js alike.
C21_ReconnectedSessionHandles ==
    /\ \A i \in DOMAIN socks :
           Reconnected(i) => Observers(inImpl, i) = AllObservers
    /\ \A a \in DOMAIN arrivals :
           Reconnected(arrivals[a].sock) =>
               /\ arrivals[a].run # 0
               /\ 1 \in runs[arrivals[a].run].handled

\* some socket, the first or one made by a reconnect, is open
SomeSessionOpen == \E i \in DOMAIN socks : socks[i].conn = "open"

\* C22: in example1_sendSingleMessage, whenever some session (the first or
\* one made by a reconnect) is open, the wait for the connection eventually
\* finishes and sendMessage is called; and the socket sendMessage was called
\* with was open at the moment of the call.
C22_OpenLeadsToSend ==
    /\ SomeSessionOpen ~> (ex1.pc = "called" /\ smPc # "idle")
    /\ [](ex1.pc = "called" => ex1.conn = "open")

====
